---- MODULE Spec2Model ----
(***************************************************************************)
(* Model of scaffold_lab/motif_scaffolding/motif_refolding.py:             *)
(* run() -> Refolder.run_sampling -> Refolder.run_self_consistency ->      *)
(* Refolder.run_af2 -> Evaluator.run_evaluation.                           *)
(*                                                                         *)
(* A file name is kept as the sequence of its "_"-separated tokens (the    *)
(* value of all_name.split("_")) plus its extension; a working directory   *)
(* f'{backbone_name}_{sample_num}' is kept as the token sequence of that   *)
(* string.  The collaborators that live outside this file (analysis.utils, *)
(* the design tool, the prediction tools) are environment choices.         *)
(***************************************************************************)
EXTENDS Integers, Sequences, FiniteSets, TLC

\* ---------------------------------------------------------------- bounds
\* at most this many entries in the backbone directory
MaxFiles == 2
\* at most this many invocations of run() over the same directories
MaxRuns == 2
\* at most this many signal-killed (negative status) attempts per retry loop
MaxSignalled == 1
\* tokens in a generated contig
MaxTokens == 2
\* residue indices of a motif
MaxIdx == 3
\* sequences folded for one candidate
MaxSamples == 3
\* inference.samples.seq_per_sample
MaxKeep == 2

\* ------------------------------------------------------ program constants
\* `if num_tries > 4: raise e`
PmpnnRetryLimit == 4
\* `if num_tries_af2 > 10: raise e`
Af2RetryLimit == 10
\* `if len(set(checked_structure.atom_name)) <= 3`
CaOnlyAtomTypes == 3

\* --------------------------------------------------------------- inputs
\* entries os.listdir(self._sample_dir) may return, in directory order
Pool ==
  << [parts |-> <<"notes">>,             ext |-> "txt", atoms |-> 0],
     [parts |-> <<"01", "1BCF", "1">>,   ext |-> "pdb", atoms |-> 1],
     [parts |-> <<"6VW1", "1">>,         ext |-> "pdb", atoms |-> 4],
     [parts |-> <<"1BCF", "3">>,         ext |-> "pdb", atoms |-> 4],
     [parts |-> <<"scaffold">>,          ext |-> "pdb", atoms |-> 4],
     [parts |-> <<"01", "1BCF", "2">>,   ext |-> "pdb", atoms |-> 4] >>

RECURSIVE Restrict(_, _)
\* the entries of Pool whose positions are in S, from position k on, in order
Restrict(S, k) ==
  IF k > Len(Pool) THEN << >>
  ELSE IF k \in S THEN << Pool[k] >> \o Restrict(S, k + 1)
       ELSE Restrict(S, k + 1)

Listings ==
  { Restrict(S, 1) : S \in { T \in SUBSET (1..Len(Pool)) : Cardinality(T) <= MaxFiles } }

\* inference.samples.max_backbones: 0 stands for None (both are falsy)
MaxBackbonesChoices == {0, 1, 2}
\* inference.motif_csv_path: "None", a path with no file, a path of a file
MotifCsvChoices == {"None", "missing.csv", "motif_info.csv"}
\* inference.predict_method
PredictMethodChoices == SUBSET {"ESMFold", "AlphaFold2"}

Configs ==
  [ max_backbones : MaxBackbonesChoices,
    motif_csv_path : MotifCsvChoices,
    hide_GPU_from_pmpnn : BOOLEAN,
    predict_method : PredictMethodChoices,
    CA_only : {FALSE} ]

\* files present on disk besides the backbones
ExistingPaths == {"motif_info.csv"}

\* the environment a run() process starts with
BaseEnviron == [ PATH |-> <<"/usr/bin">>, CUDA_VISIBLE_DEVICES |-> "0" ]

\* int(): defined on decimal strings, ValueError on anything else
IntOf == [ s \in {"1", "2", "3"} |->
             CASE s = "1" -> 1 [] s = "2" -> 2 [] s = "3" -> 3 ]
IsNumeric(s) == s \in DOMAIN IntOf

VARIABLES
  conf,            \* the hydra configuration of every run
  listing,         \* os.listdir(self._sample_dir)
  phase,           \* "idle", "sampling", "sampled", "evaluating", "finished", "aborted"
  fault,           \* the exception that ended the run, "none" otherwise
  runs,            \* number of run() invocations started
  i,               \* position of run_sampling's loop in listing
  pc,              \* position inside the loop body
  backbone_name,   \* run_sampling local (token sequence)
  sample_num,      \* run_sampling local
  convention,      \* which naming convention resolved the current file
  motif_source,    \* which branch produced csv_data for the current file
  has_motif_csv,   \* whether the attribute self._motif_csv was assigned
  CA_only,         \* self._CA_only
  ca_flag,         \* '--ca_only' in pmpnn_args of the current call
  num_tries,       \* run_self_consistency local
  ret,             \* run_self_consistency local
  num_tries_af2,   \* run_af2 local
  ret_af2,         \* run_af2 local
  attempts,        \* Popen launches of the retry loop in progress
  out_exists,      \* whether the tool's declared output is on disk
  osEnviron,       \* os.environ of the orchestrator process
  childEnv,        \* env= handed to the last design-tool Popen
  dirs,            \* working directories under output_dir
  tables,          \* <<directory, prefix>> of the metrics tables on disk
  motif_json,      \* whether motif_info.json is on disk
  prefix,          \* Evaluator.prefix
  invokedRun,      \* directories whose candidate had a tool launched, this run
  writtenRun,      \* directories whose candidate had a table written, this run
  existedAtReach,  \* directories that existed when run_sampling reached them, this run
  cutoffSkipped,   \* positions of listing skipped by the max_backbones test, this run
  writeLog,        \* every table write since the beginning, in order
  chains,          \* chains_to_design of the current run_self_consistency call
  fasta_read,      \* what FastaFile.read(mpnn_fasta_path) met: "ok" or "missing"
  succ_dir,        \* kinds of entries in <result_dir>/successful_backbones
  backbones,       \* run_evaluation local: number of successful backbones, -1 before
  novelty,         \* run_evaluation local novelty_score: "null" or "score"
  novelty_called,  \* whether nu.calculate_novelty was called in this pass
  summary,         \* novelty_value handed to au.write_summary_results
  kernel           \* input and result of a data-level step checked on its own

vars ==
  << conf, listing, phase, fault, runs, i, pc, backbone_name, sample_num,
     convention, motif_source, has_motif_csv, CA_only, ca_flag, num_tries, ret,
     num_tries_af2, ret_af2, attempts, out_exists, osEnviron, childEnv, dirs,
     tables, motif_json, prefix, invokedRun, writtenRun, existedAtReach,
     cutoffSkipped, writeLog, chains, fasta_read, succ_dir, backbones, novelty,
     novelty_called, summary, kernel >>

scVars == << ca_flag, chains, fasta_read >>
evalVars == << succ_dir, backbones, novelty, novelty_called, summary >>
ctrlVars == << phase, fault, i, pc >>
nameVars == << backbone_name, sample_num, convention >>
retryVars == << num_tries, ret, num_tries_af2, ret_af2, attempts, out_exists >>
envVars == << osEnviron, childEnv >>
diskVars == << dirs, tables, motif_json >>
histVars == << invokedRun, writtenRun, existedAtReach, cutoffSkipped, writeLog >>
confVars == << conf, listing, runs, has_motif_csv, prefix >>

\* os.path.exists
PathExists(p) == p \in ExistingPaths

\* f'{backbone_name}_{sample_num}'
DirKey(name, num) == Append(name, num)

\* nothing has run yet
Idle ==
  /\ phase = "idle"
  /\ fault = "none"
  /\ runs = 0
  /\ i = 1
  /\ pc = "listdir"
  /\ backbone_name = << >>
  /\ sample_num = ""
  /\ convention = "none"
  /\ motif_source = "none"
  /\ has_motif_csv = FALSE
  /\ CA_only = FALSE
  /\ ca_flag = FALSE
  /\ num_tries = 0
  /\ ret = -1
  /\ num_tries_af2 = 0
  /\ ret_af2 = -1
  /\ attempts = 0
  /\ out_exists = FALSE
  /\ osEnviron = BaseEnviron
  /\ childEnv = BaseEnviron
  /\ dirs = {}
  /\ tables = {}
  /\ motif_json = FALSE
  /\ prefix = "none"
  /\ invokedRun = {}
  /\ writtenRun = {}
  /\ existedAtReach = {}
  /\ cutoffSkipped = {}
  /\ writeLog = << >>
  /\ chains = "none"
  /\ fasta_read = "none"
  /\ succ_dir = {}
  /\ backbones = -1
  /\ novelty = "none"
  /\ novelty_called = FALSE
  /\ summary = "none"

Init ==
  /\ conf \in Configs
  /\ listing \in Listings
  /\ Idle
  /\ kernel = [ op |-> "none" ]

\* the exception is caught around the loop body and the loop goes on
Swallowed(exc, idx) ==
  [ phase |-> "sampling", fault |-> "none", i |-> idx + 1, pc |-> "listdir" ]

\* ------------------------------------------------------------ control
\* An exception raised inside the loop body of run_sampling meets no handler
\* there (lines 154-308) nor in run() (lines 863-883): the process ends with
\* the loop where it was and Evaluator never constructed.
Uncaught(exc, idx) ==
  [ phase |-> "aborted", fault |-> exc, i |-> idx, pc |-> "raised" ]

Raise(exc) ==
  LET c == Uncaught(exc, i)
  IN  /\ phase' = c.phase
      /\ fault' = c.fault
      /\ i' = c.i
      /\ pc' = c.pc

\* `continue`, or the end of the loop body: on to the next directory entry
NextEntry ==
  /\ i' = i + 1
  /\ pc' = "listdir"
  /\ UNCHANGED << phase, fault >>

Goto(label) ==
  /\ pc' = label
  /\ UNCHANGED << phase, fault, i >>

\* ----------------------------------------------------- run(), __init__
\* Refolder.__init__: `if motif_csv_path is not None: self._motif_csv = ...`
MotifCsvAssigned(path) == path # "None"

\* Refolder.__init__: colabfold is put in front of PATH when AlphaFold2 is used
InitEnviron(env, methods) ==
  IF "AlphaFold2" \in methods
    THEN [ env EXCEPT !.PATH = << "colabfold" >> \o @ ]
    ELSE env

\* run(): a fresh process; Refolder(conf) and the entry into run_sampling
StartRun ==
  /\ phase \in {"idle", "finished", "aborted"}
  /\ runs < MaxRuns
  /\ runs' = runs + 1
  /\ phase' = "sampling"
  /\ fault' = "none"
  /\ i' = 1
  /\ pc' = "listdir"
  /\ backbone_name' = << >>
  /\ sample_num' = ""
  /\ convention' = "none"
  /\ motif_source' = "none"
  /\ has_motif_csv' = MotifCsvAssigned(conf.motif_csv_path)
  /\ CA_only' = conf.CA_only
  /\ ca_flag' = FALSE
  /\ chains' = "none"
  /\ fasta_read' = "none"
  /\ backbones' = -1
  /\ novelty' = "none"
  /\ novelty_called' = FALSE
  /\ summary' = "none"
  /\ num_tries' = 0
  /\ ret' = -1
  /\ num_tries_af2' = 0
  /\ ret_af2' = -1
  /\ attempts' = 0
  /\ out_exists' = FALSE
  /\ osEnviron' = InitEnviron(BaseEnviron, conf.predict_method)
  /\ childEnv' = BaseEnviron
  /\ prefix' = "none"
  /\ invokedRun' = {}
  /\ writtenRun' = {}
  /\ existedAtReach' = {}
  /\ cutoffSkipped' = {}
  /\ UNCHANGED << conf, listing, dirs, tables, motif_json, writeLog, succ_dir,
                  kernel >>

\* ------------------------------------------------ run_sampling: names
\* `self._max_backbones and int(sample_num) >= self._max_backbones`
\* (called only where int(sample_num) is defined)
OverCutoff(num, max_backbones) ==
  max_backbones # 0 /\ IntOf[num] >= max_backbones

\* lines 163-196: the try / except ValueError / except (ValueError,
\* AssertionError) cascade on all_name.split("_").  self._whole_benchmark_set
\* is None (line 132), so the third strategy's `for native_pdb in None`
\* raises TypeError inside the handler.
NameOutcome(parts, max_backbones) ==
  IF Len(parts) = 3 /\ (max_backbones = 0 \/ IsNumeric(parts[3]))
    THEN IF OverCutoff(parts[3], max_backbones)
           THEN [ kind |-> "cutoff", convention |-> "three",
                  backbone_name |-> << parts[2] >>, sample_num |-> parts[3] ]
           ELSE [ kind |-> "ok", convention |-> "three",
                  backbone_name |-> << parts[1], parts[2] >>,
                  sample_num |-> parts[3] ]
  ELSE IF Len(parts) = 2
    THEN [ kind |-> "ok", convention |-> "two",
           backbone_name |-> << parts[1] >>, sample_num |-> parts[2] ]
  ELSE IF Len(parts) = 3
    \* int(sample_num) raised ValueError after the three names were bound
    THEN [ kind |-> "raise", convention |-> "none",
           backbone_name |-> << parts[2] >>, sample_num |-> parts[3] ]
    ELSE [ kind |-> "raise", convention |-> "none",
           backbone_name |-> backbone_name, sample_num |-> sample_num ]

\* lines 154-196
ResolveName ==
  /\ phase = "sampling"
  /\ pc = "listdir"
  /\ i <= Len(listing)
  /\ LET f == listing[i]
         r == NameOutcome(f.parts, conf.max_backbones)
     IN  IF f.ext # "pdb"
           THEN /\ NextEntry
                /\ UNCHANGED << nameVars, cutoffSkipped >>
           ELSE /\ backbone_name' = r.backbone_name
                /\ sample_num' = r.sample_num
                /\ convention' = r.convention
                /\ CASE r.kind = "cutoff" ->
                          /\ NextEntry
                          /\ cutoffSkipped' = cutoffSkipped \cup {i}
                     [] r.kind = "ok" ->
                          /\ Goto("motif")
                          /\ UNCHANGED cutoffSkipped
                     [] r.kind = "raise" ->
                          /\ Raise("TypeError")
                          /\ UNCHANGED cutoffSkipped
  /\ UNCHANGED << confVars, motif_source, CA_only, scVars, evalVars, kernel, retryVars, envVars,
                  diskVars, invokedRun, writtenRun, existedAtReach, writeLog >>

\* ---------------------------------------- run_sampling: motif metadata
\* line 219, `if os.path.exists(self._motif_csv)`: reading an attribute that
\* __init__ never assigned raises AttributeError
MotifBranch(assigned, path) ==
  IF ~assigned THEN "AttributeError"
  ELSE IF PathExists(path) THEN "csv"
  ELSE "scaffold"

\* lines 199-234.  au.get_csv_data and au.parse_input_scaffold return the
\* motif record or None (line 225).
ResolveMotif ==
  /\ phase = "sampling"
  /\ pc = "motif"
  /\ LET b == MotifBranch(has_motif_csv, conf.motif_csv_path)
     IN  IF b = "AttributeError"
           THEN /\ Raise("AttributeError")
                /\ UNCHANGED motif_source
           ELSE /\ motif_source' = b
                /\ \E csv_data \in {"record", "None"} :
                     IF csv_data = "None" THEN NextEntry ELSE Goto("contig")
  /\ UNCHANGED << confVars, nameVars, CA_only, scVars, evalVars, kernel, retryVars, envVars,
                  diskVars, histVars >>

\* lines 236-267: reference and design contigs, redesign positions, motif
\* extraction and the backbone motif RMSD.  The au.* helpers either return
\* or raise; nothing here catches.
ExtractMotif ==
  /\ phase = "sampling"
  /\ pc = "contig"
  /\ \E raised \in BOOLEAN :
       IF raised THEN Raise("MotifError") ELSE Goto("save")
  /\ UNCHANGED << confVars, nameVars, motif_source, CA_only, scVars, evalVars, kernel, retryVars,
                  envVars, diskVars, histVars >>

\* the existence test is lost (os.makedirs(..., exist_ok=True) alone)
BackboneDirNeverExists(key, ds) == FALSE

\* ------------------------------------------- run_sampling: save outputs
\* line 271, `if os.path.exists(backbone_dir)`
BackboneDirExists(key, ds) == key \in ds

\* line 289, `if backbone_name == '6VW1'`
IsComplexCase(name) == name = << "6VW1" >>

\* lines 269-307, up to the call of run_self_consistency.  The 6VW1 branch
\* reads chain_B_indices, a name bound nowhere: NameError.
SaveOutputs ==
  /\ phase = "sampling"
  /\ pc = "save"
  /\ LET key == DirKey(backbone_name, sample_num)
     IN  /\ existedAtReach' =
               IF key \in dirs THEN existedAtReach \cup {key} ELSE existedAtReach
         /\ IF BackboneDirExists(key, dirs)
              THEN /\ NextEntry
                   /\ UNCHANGED dirs
              ELSE /\ dirs' = dirs \cup {key}
                   /\ IF IsComplexCase(backbone_name)
                        THEN Raise("NameError")
                        ELSE Goto("sc_setup")
  /\ UNCHANGED << confVars, nameVars, motif_source, CA_only, scVars, evalVars, kernel, retryVars,
                  envVars, tables, motif_json, invokedRun, writtenRun,
                  cutoffSkipped, writeLog >>

\* ------------------------------------------------ run_self_consistency
\* lines 345-348
DetectCaOnly(flag, atoms) == IF atoms <= CaOnlyAtomTypes THEN TRUE ELSE flag

\* lines 394-406: chains_to_design
ChainsToDesign(complex_motif) == IF complex_motif # "None" THEN "A B" ELSE "A"

\* lines 339-422: CA-only detection on the one .pdb of decoy_pdb_dir, the
\* chain parser, the argument list, the fixed positions.  The only call that
\* returns from its argument evaluation is the one of lines 299-307, which
\* passes no complex_motif.
ScSetup ==
  /\ phase = "sampling"
  /\ pc = "sc_setup"
  /\ CA_only' = DetectCaOnly(CA_only, listing[i].atoms)
  /\ ca_flag' = CA_only'
  /\ chains' = ChainsToDesign("None")
  /\ fasta_read' = "none"
  /\ num_tries' = 0
  /\ ret' = -1
  /\ attempts' = 0
  /\ out_exists' = FALSE
  /\ Goto("pmpnn")
  /\ UNCHANGED << confVars, nameVars, motif_source, num_tries_af2, ret_af2,
                  envVars, diskVars, histVars, evalVars, kernel >>

\* `env = os.environ` without .copy(): the mask lands in the parent
LaunchEnvInPlace(environ, hide) ==
  LET e == IF hide THEN [ environ EXCEPT !.CUDA_VISIBLE_DEVICES = "" ]
                   ELSE environ
  IN  [ parent |-> e, child |-> e ]

\* lines 428-430: the child's environment is a copy of os.environ; the mask
\* is written to the copy.  parent is os.environ after the statement.
LaunchEnv(environ, hide) ==
  [ parent |-> environ,
    child |-> IF hide THEN [ environ EXCEPT !.CUDA_VISIBLE_DEVICES = "" ]
                      ELSE environ ]

\* `if num_tries > 5`
PmpnnGiveUpLate(n) == n > PmpnnRetryLimit + 1

\* line 442
PmpnnGiveUp(n) == n > PmpnnRetryLimit

\* what one Popen(...).wait() can do: exit 0, exit with a positive status,
\* die of a signal (negative status), or raise
Outcomes == {"exit0", "exit_pos", "signalled", "fault"}

StatusOf(o) == CASE o = "exit0" -> 0 [] o = "exit_pos" -> 1 [] o = "signalled" -> -9

\* line 424 / 683: `while ret < 0`
LoopAgain(r) == r < 0

\* lines 424-443: one pass of the design-tool loop
PmpnnAttempt ==
  /\ phase = "sampling"
  /\ pc = "pmpnn"
  /\ LoopAgain(ret)
  /\ LET e == LaunchEnv(osEnviron, conf.hide_GPU_from_pmpnn)
     IN  /\ osEnviron' = e.parent
         /\ childEnv' = e.child
  /\ attempts' = attempts + 1
  /\ invokedRun' = invokedRun \cup { DirKey(backbone_name, sample_num) }
  /\ \E o \in Outcomes :
       /\ o = "signalled" => attempts - num_tries < MaxSignalled
       /\ IF o = "fault"
            THEN /\ num_tries' = num_tries + 1
                 /\ UNCHANGED << ret, out_exists >>
                 /\ IF PmpnnGiveUp(num_tries')
                      THEN Raise("DesignToolFault")
                      ELSE Goto("pmpnn")
            ELSE /\ ret' = StatusOf(o)
                 /\ UNCHANGED num_tries
                 /\ out_exists' \in (IF o = "exit0" THEN {TRUE}
                                     ELSE IF o = "exit_pos" THEN BOOLEAN
                                     ELSE {FALSE})
                 /\ IF LoopAgain(ret') THEN Goto("pmpnn") ELSE Goto("read_seqs")
  /\ UNCHANGED << confVars, nameVars, motif_source, CA_only, scVars, evalVars, kernel,
                  num_tries_af2, ret_af2, diskVars, writtenRun, existedAtReach,
                  cutoffSkipped, writeLog >>

\* `'ESMFold' in self._forward_folding`, `'AlphaFold2' in self._forward_folding`
UsesEsm(methods) == "ESMFold" \in methods
UsesAf2(methods) == "AlphaFold2" \in methods

\* lines 444-505: FastaFile.read(mpnn_fasta_path) opens the declared output
\* of the design tool; the sequences are filtered and written back.
\* num_tries and ret are never read after the loop: they are dropped here.
ReadSeqs ==
  /\ phase = "sampling"
  /\ pc = "read_seqs"
  /\ fasta_read' = (IF out_exists THEN "ok" ELSE "missing")
  /\ IF ~out_exists
       THEN /\ Raise("FileNotFoundError")
            /\ UNCHANGED << num_tries, ret, attempts, out_exists >>
       ELSE /\ num_tries' = 0
            /\ ret' = -1
            /\ attempts' = 0
            /\ out_exists' = FALSE
            /\ IF UsesEsm(conf.predict_method) THEN Goto("esmfold")
               ELSE IF UsesAf2(conf.predict_method) THEN Goto("af2_start")
               ELSE Goto("finish")
  /\ UNCHANGED << confVars, nameVars, motif_source, CA_only, ca_flag, chains,
                  evalVars, kernel, num_tries_af2, ret_af2, envVars, diskVars,
                  histVars >>

\* to_csv of a per-candidate table
WriteTable(key, pfx) ==
  /\ tables' = tables \cup { << key, pfx >> }
  /\ writtenRun' = writtenRun \cup { key }
  /\ writeLog' = Append(writeLog, << key, pfx >>)

\* lines 507-561: fold every sequence in process, write esm_eval_results.csv
EsmFold ==
  /\ phase = "sampling"
  /\ pc = "esmfold"
  /\ invokedRun' = invokedRun \cup { DirKey(backbone_name, sample_num) }
  /\ WriteTable(DirKey(backbone_name, sample_num), "esm")
  /\ IF UsesAf2(conf.predict_method) THEN Goto("af2_start") ELSE Goto("finish")
  /\ UNCHANGED << confVars, nameVars, motif_source, CA_only, scVars, evalVars, kernel, retryVars,
                  envVars, dirs, motif_json, existedAtReach, cutoffSkipped >>

\* lines 564-567 and 646-680: run_af2 is entered, its locals and arguments set
Af2Start ==
  /\ phase = "sampling"
  /\ pc = "af2_start"
  /\ num_tries_af2' = 0
  /\ ret_af2' = -1
  /\ attempts' = 0
  /\ out_exists' = FALSE
  /\ Goto("af2")
  /\ UNCHANGED << confVars, nameVars, motif_source, CA_only, scVars, evalVars, kernel, num_tries,
                  ret, envVars, diskVars, histVars >>

\* line 696
Af2GiveUp(n) == n > Af2RetryLimit

\* lines 682-697: one pass of the prediction-tool loop
Af2Attempt ==
  /\ phase = "sampling"
  /\ pc = "af2"
  /\ LoopAgain(ret_af2)
  /\ attempts' = attempts + 1
  /\ invokedRun' = invokedRun \cup { DirKey(backbone_name, sample_num) }
  /\ \E o \in Outcomes :
       /\ o = "signalled" => attempts - num_tries_af2 < MaxSignalled
       /\ IF o = "fault"
            THEN /\ num_tries_af2' = num_tries_af2 + 1
                 /\ UNCHANGED << ret_af2, out_exists >>
                 /\ IF Af2GiveUp(num_tries_af2')
                      THEN Raise("PredictionToolFault")
                      ELSE Goto("af2")
            ELSE /\ ret_af2' = StatusOf(o)
                 /\ UNCHANGED num_tries_af2
                 /\ out_exists' \in (IF o = "exit0" THEN {TRUE}
                                     ELSE IF o = "exit_pos" THEN BOOLEAN
                                     ELSE {FALSE})
                 /\ IF LoopAgain(ret_af2') THEN Goto("af2") ELSE Goto("af2_metrics")
  /\ UNCHANGED << confVars, nameVars, motif_source, CA_only, scVars, evalVars, kernel, num_tries,
                  ret, envVars, diskVars, writtenRun, existedAtReach,
                  cutoffSkipped, writeLog >>

\* lines 568-621: collect the raw outputs, score them, write
\* af2_eval_results.csv.  run_af2 has returned: its locals are gone.
Af2Metrics ==
  /\ phase = "sampling"
  /\ pc = "af2_metrics"
  /\ IF ~out_exists
       THEN /\ Raise("FileNotFoundError")
            /\ UNCHANGED << tables, writtenRun, writeLog, num_tries_af2, ret_af2,
                            attempts, out_exists >>
       ELSE /\ WriteTable(DirKey(backbone_name, sample_num), "af2")
            /\ num_tries_af2' = 0
            /\ ret_af2' = -1
            /\ attempts' = 0
            /\ out_exists' = FALSE
            /\ Goto("finish")
  /\ UNCHANGED << confVars, nameVars, motif_source, CA_only, scVars, evalVars, kernel, num_tries,
                  ret, envVars, dirs, motif_json, invokedRun, existedAtReach,
                  cutoffSkipped >>

\* lines 623-629 and 308: the joint table when both methods ran, then the
\* return to run_sampling's loop
FinishSample ==
  /\ phase = "sampling"
  /\ pc = "finish"
  /\ IF UsesEsm(conf.predict_method) /\ UsesAf2(conf.predict_method)
       THEN WriteTable(DirKey(backbone_name, sample_num), "joint")
       ELSE UNCHANGED << tables, writtenRun, writeLog >>
  /\ NextEntry
  \* run_self_consistency returns: its locals and those of run_af2 are gone
  /\ num_tries' = 0
  /\ ret' = -1
  /\ num_tries_af2' = 0
  /\ ret_af2' = -1
  /\ attempts' = 0
  /\ out_exists' = FALSE
  /\ ca_flag' = FALSE
  /\ chains' = "none"
  /\ fasta_read' = "none"
  /\ UNCHANGED << confVars, nameVars, motif_source, CA_only, envVars, dirs,
                  motif_json, invokedRun, existedAtReach, cutoffSkipped,
                  evalVars, kernel >>

\* lines 309-312: the loop is over, motif_info.json is written
WriteMotifInfo ==
  /\ phase = "sampling"
  /\ pc = "listdir"
  /\ i > Len(listing)
  /\ motif_json' = TRUE
  /\ phase' = "sampled"
  /\ UNCHANGED << fault, i, pc, confVars, nameVars, motif_source, CA_only,
                  scVars, evalVars, kernel, retryVars, envVars, dirs, tables, histVars >>

\* ------------------------------------------------------------ Evaluator
\* lines 731-737
PrefixOf(methods) ==
  IF UsesEsm(methods) /\ UsesAf2(methods) THEN "joint"
  ELSE IF UsesEsm(methods) /\ ~UsesAf2(methods) THEN "esm"
  ELSE "af2"

\* lines 879-880 and 700-737: Evaluator(conf)
EvaluatorInit ==
  /\ phase = "sampled"
  /\ phase' = "evaluating"
  /\ pc' = "merge"
  /\ prefix' = PrefixOf(conf.predict_method)
  /\ UNCHANGED << fault, i, conf, listing, runs, has_motif_csv, nameVars,
                  motif_source, CA_only, scVars, evalVars, kernel, retryVars, envVars, diskVars,
                  histVars >>

\* lines 743-746: the candidates whose table of the chosen prefix is merged
Merged == { d \in dirs : << d, prefix >> \in tables }

\* lines 743-768: merge, success analysis, copy of the successful backbones
\* into successful_backbones (the directory stays on disk between runs)
EvalMerge ==
  /\ phase = "evaluating"
  /\ pc = "merge"
  /\ \E n \in 0..Cardinality(Merged) :
       /\ backbones' = n
       /\ succ_dir' = succ_dir \cup (IF n > 0 THEN {"pdb"} ELSE {})
  /\ pc' = "cluster"
  /\ UNCHANGED << phase, fault, i, confVars, nameVars, motif_source, CA_only,
                  scVars, novelty, novelty_called, summary, kernel, retryVars,
                  envVars, diskVars, histVars >>

\* du.foldseek_cluster: with structures to cluster the tool leaves
\* diversity_cluster.tsv in its input directory or fails to; with none it
\* leaves no result
FoldseekWrites(entries) ==
  IF "pdb" \in entries THEN BOOLEAN ELSE {FALSE}

\* lines 770-801: clustering; the absence of diversity_cluster.tsv is logged,
\* nothing is raised
EvalCluster ==
  /\ phase = "evaluating"
  /\ pc = "cluster"
  /\ \E wrote \in FoldseekWrites(succ_dir) :
       succ_dir' = succ_dir \cup (IF wrote THEN {"tsv"} ELSE {})
  /\ pc' = "novelty"
  /\ UNCHANGED << phase, fault, i, confVars, nameVars, motif_source, CA_only,
                  scVars, backbones, novelty, novelty_called, summary, kernel,
                  retryVars, envVars, diskVars, histVars >>

NoveltyByClustering(entries) ==
  IF "tsv" \in entries THEN "score" ELSE "null"

\* lines 804-822: len(os.listdir(successful_backbone_dir)) > 0
NoveltyValue(entries) ==
  IF Cardinality(entries) > 0 THEN "score" ELSE "null"

\* lines 803-822: novelty evaluation
EvalNovelty ==
  /\ phase = "evaluating"
  /\ pc = "novelty"
  /\ novelty' = NoveltyValue(succ_dir)
  /\ novelty_called' = (NoveltyValue(succ_dir) # "null")
  /\ pc' = "summary"
  /\ UNCHANGED << phase, fault, i, confVars, nameVars, motif_source, CA_only,
                  scVars, succ_dir, backbones, summary, kernel, retryVars,
                  envVars, diskVars, histVars >>

\* lines 824-858: write_summary_results(novelty_value=novelty_score)
EvalSummary ==
  /\ phase = "evaluating"
  /\ pc = "summary"
  /\ summary' = novelty
  /\ phase' = "finished"
  /\ UNCHANGED << fault, i, pc, confVars, nameVars, motif_source, CA_only,
                  scVars, succ_dir, backbones, novelty, novelty_called, kernel,
                  retryVars, envVars, diskVars, histVars >>

Next ==
  \/ StartRun
  \/ ResolveName
  \/ ResolveMotif
  \/ ExtractMotif
  \/ SaveOutputs
  \/ ScSetup
  \/ PmpnnAttempt
  \/ ReadSeqs
  \/ EsmFold
  \/ Af2Start
  \/ Af2Attempt
  \/ Af2Metrics
  \/ FinishSample
  \/ WriteMotifInfo
  \/ EvaluatorInit
  \/ EvalMerge
  \/ EvalCluster
  \/ EvalNovelty
  \/ EvalSummary

Spec == Init /\ [][Next]_vars

\* ====================================================== data-level steps
\* The steps below work on values only; they are checked on their own, each
\* applied once to an input drawn from a bounded set.

mainVars ==
  << conf, listing, phase, fault, runs, i, pc, backbone_name, sample_num,
     convention, motif_source, has_motif_csv, CA_only, ca_flag, num_tries, ret,
     num_tries_af2, ret_af2, attempts, out_exists, osEnviron, childEnv, dirs,
     tables, motif_json, prefix, invokedRun, writtenRun, existedAtReach,
     cutoffSkipped, writeLog, chains, fasta_read, succ_dir, backbones, novelty,
     novelty_called, summary >>

\* ------------------------------------------- plot.py: contig to selections
\* str.isdigit on one character
IsDigit(c) == c \in {"0", "1", "2", "3", "4", "5", "6", "7", "8", "9"}

\* s[1:]
Tail1(s) == SubSeq(s, 2, Len(s))

\* c in s
Contains(s, c) == \E k \in 1..Len(s) : s[k] = c

\* s.split(sep), s a sequence of characters
RECURSIVE Split(_, _)
Split(s, sep) ==
  IF ~Contains(s, sep) THEN << s >>
  ELSE LET k == CHOOSE n \in 1..Len(s) :
                  s[n] = sep /\ \A m \in 1..(n - 1) : s[m] # sep
       IN  << SubSeq(s, 1, k - 1) >> \o Split(SubSeq(s, k + 1, Len(s)), sep)

\* "/".join(tokens)
RECURSIVE Join(_)
Join(tokens) ==
  IF Len(tokens) = 0 THEN << >>
  ELSE IF Len(tokens) = 1 THEN tokens[1]
  ELSE tokens[1] \o << "/" >> \o Join(Tail(tokens))

\* plot.py line 44
ContigList(contig) ==
  SelectSeq(Split(contig, "/"), LAMBDA t : ~IsDigit(t[1]))

\* plot.py lines 47-59: the selection made for one block, "resi <resi> and
\* chain <chain>"
Select(block) ==
  LET chain == block[1]
      rest == Tail1(block)
  IN  IF Contains(rest, "-")
        THEN LET element == Split(rest, "-")
             IN  [ chain |-> chain,
                   resi |-> element[1] \o << "-" >> \o element[2] ]
        ELSE [ chain |-> chain, resi |-> Tail1(rest) ]

\* plot.py lines 42-59
ConfigFolder(contig) ==
  LET blocks == ContigList(contig)
  IN  [ k \in 1..Len(blocks) |-> Select(blocks[k]) ]

Tokens ==
  { << "3", "1", "-", "3", "1" >>,
    << "B", "2", "5", "-", "4", "6" >>,
    << "3", "2", "-", "3", "2" >>,
    << "A", "3", "2" >>,
    << "A", "4" >>,
    << "A", "5" >> }

\* the contig of the comment at plot.py line 43
ExampleTokens ==
  << << "3", "1", "-", "3", "1" >>,
     << "B", "2", "5", "-", "4", "6" >>,
     << "3", "2", "-", "3", "2" >>,
     << "A", "3", "2" >>,
     << "A", "4" >>,
     << "A", "5" >> >>

ContigInputs ==
  { ExampleTokens } \cup UNION { [ 1..n -> Tokens ] : n \in 1..MaxTokens }

KernelContig ==
  /\ kernel.op = "contig"
  /\ ~kernel.done
  /\ kernel' = [ kernel EXCEPT !.done = TRUE,
                               !.out = ConfigFolder(Join(kernel.arg)) ]
  /\ UNCHANGED mainVars

\* ------------------------------- run_sampling: redesign and the two contigs
\* maximal runs lo..hi of consecutive indices, as au.motif_indices_to_contig
\* writes them into the contig
MotifIndicesToContig(indices) ==
  { << lo, hi >> \in indices \X indices :
      /\ lo <= hi
      /\ \A n \in lo..hi : n \in indices
      /\ (lo - 1) \notin indices
      /\ (hi + 1) \notin indices }

\* the residues a contig of runs stands for
Covered(contig) == UNION { (seg[1])..(seg[2]) : seg \in contig }

\* au.introduce_redesign_positions: the redesign positions leave the indices
IntroduceRedesignPositions(indices, redesign) == indices \ redesign

\* au.motif_indices_to_fixed_positions: the indices, ascending
RECURSIVE MotifIndicesToFixedPositions(_)
MotifIndicesToFixedPositions(indices) ==
  IF indices = {} THEN << >>
  ELSE LET lo == CHOOSE n \in indices : \A m \in indices : n <= m
       IN  << lo >> \o MotifIndicesToFixedPositions(indices \ {lo})

ContigAfterRedesign(motif_indices, redesign_info) ==
  LET refined == IF redesign_info.given
                   THEN IntroduceRedesignPositions(motif_indices, redesign_info.pos)
                   ELSE motif_indices
  IN  [ design_contig |-> MotifIndicesToContig(refined),
        motif_indices |-> refined ]

\* lines 236-244: design_contig is made from the indices as read, then the
\* indices are refined
PrepareMotif(motif_indices, redesign_info) ==
  [ design_contig |-> MotifIndicesToContig(motif_indices),
    motif_indices |-> IF redesign_info.given
                        THEN IntroduceRedesignPositions(motif_indices, redesign_info.pos)
                        ELSE motif_indices ]

RedesignInputs ==
  { [ motif |-> m, redesign |-> r ] :
      m \in (SUBSET (1..MaxIdx)) \ { {} },
      r \in { [ given |-> FALSE, pos |-> {} ] }
              \cup { [ given |-> TRUE, pos |-> q ] : q \in SUBSET (1..MaxIdx) } }

\* lines 236-267, 299-307 and 391-393: the contig goes to motif_extract and
\* to run_self_consistency as sample_contig, the indices become the fixed
\* positions of the design tool
KernelRedesign ==
  /\ kernel.op = "redesign"
  /\ ~kernel.done
  /\ LET prep == PrepareMotif(kernel.arg.motif, kernel.arg.redesign)
     IN  kernel' = [ kernel EXCEPT
                       !.done = TRUE,
                       !.out = [ sample_contig |-> prep.design_contig,
                                 fixed_positions |->
                                   MotifIndicesToFixedPositions(prep.motif_indices) ] ]
  /\ UNCHANGED mainVars

\* --------------------------- run_self_consistency: the per-candidate tables
\* rows with one more row put at its place by sample_idx
RECURSIVE Insert(_, _)
Insert(rows, row) ==
  IF Len(rows) = 0 THEN << row >>
  ELSE IF row.sample_idx < Head(rows).sample_idx THEN << row >> \o rows
  ELSE << Head(rows) >> \o Insert(Tail(rows), row)

AsAppended(rows) == rows

\* lines 560 and 620: DataFrame.sort_values('sample_idx')
RECURSIVE SortValues(_)
SortValues(rows) ==
  IF Len(rows) = 0 THEN << >>
  ELSE Insert(SortValues(SubSeq(rows, 1, Len(rows) - 1)), rows[Len(rows)])

\* lines 509-555 and 575-614: one row per folded sequence, in the order of
\* seqs_dict
RowsOf(order) ==
  [ k \in 1..Len(order) |-> [ sample_idx |-> order[k], folded |-> k ] ]

\* the orders the sequences of a candidate can be folded in
FoldOrders ==
  { o \in UNION { [ 1..n -> 1..MaxSamples ] : n \in 1..MaxSamples } :
      \A a, b \in 1..Len(o) : o[a] = o[b] => a = b }

\* lines 507-561: esm_eval_results.csv
KernelEsmTable ==
  /\ kernel.op = "table"
  /\ ~kernel.done
  /\ kernel' = [ kernel EXCEPT !.done = TRUE,
                               !.out = [ file |-> "esm",
                                         rows |-> SortValues(RowsOf(kernel.arg)) ] ]
  /\ UNCHANGED mainVars

\* lines 564-621: af2_eval_results.csv
KernelAf2Table ==
  /\ kernel.op = "table"
  /\ ~kernel.done
  /\ kernel' = [ kernel EXCEPT !.done = TRUE,
                               !.out = [ file |-> "af2",
                                         rows |-> SortValues(RowsOf(kernel.arg)) ] ]
  /\ UNCHANGED mainVars

\* ------------------------ run_self_consistency: the ESMFold result record
\* lines 450-464: the keys mpnn_results starts with
Columns ==
  { "tm_score", "sample_path", "header", "sequence", "rmsd", "pae", "ptm",
    "plddt", "length", "backbone_motif_rmsd", "motif_rmsd", "mpnn_score",
    "sample_idx" }

\* lines 450-468: mpnn_results before the first sequence; has_mask stands
\* for `motif_mask is not None`
EmptyResults(has_mask) ==
  [ c \in Columns \cup (IF has_mask THEN {"refold_motif_rmsd"} ELSE {}) |-> << >> ]

\* lines 509-555: the appends made for the k-th folded sequence; has_rms
\* stands for `rms is not None`
AppendResults(results, k, has_mask, has_rms) ==
  [ c \in DOMAIN results |->
      IF c = "refold_motif_rmsd"
        THEN (IF has_mask THEN Append(results[c], k) ELSE results[c])
      ELSE IF c = "backbone_motif_rmsd"
        THEN (IF has_rms THEN Append(results[c], k) ELSE results[c])
      ELSE Append(results[c], k) ]

\* lines 507-555: the record after n sequences went through the loop
RECURSIVE FoldResults(_, _, _)
FoldResults(n, has_mask, has_rms) ==
  IF n = 0 THEN EmptyResults(has_mask)
  ELSE AppendResults(FoldResults(n - 1, has_mask, has_rms), n, has_mask, has_rms)

RecordInputs ==
  [ n : 1..MaxSamples, has_mask : BOOLEAN, has_rms : BOOLEAN ]

KernelEsmRecord ==
  /\ kernel.op = "record"
  /\ ~kernel.done
  /\ kernel' = [ kernel EXCEPT
                   !.done = TRUE,
                   !.out = FoldResults(kernel.arg.n, kernel.arg.has_mask,
                                       kernel.arg.has_rms) ]
  /\ UNCHANGED mainVars

\* ------------------- run_self_consistency: the sequences that are refolded
\* A header is the list header.split(", ") of its fields, a field the list
\* field.split("=") of its key and value.
\* the header ProteinMPNN writes for the input structure itself
OriginalHeader ==
  << << "1BCF" >>, << "score", 2 >>, << "global_score", 2 >>,
     << "fixed_chains", "[]" >>, << "designed_chains", "['A']" >> >>

\* the header of the k-th sequence designed at --sampling_temp 0.1 (line 378)
DesignedHeader(k, global_score) ==
  << << "T", << "0", ".", "1" >> >>, << "sample", k >>, << "score", global_score >>,
     << "global_score", global_score >>, << "seq_recovery", 0 >> >>

\* header.startswith("T=0")
StartsWithT0(header) ==
  /\ header[1][1] = "T"
  /\ Len(header[1]) = 2
  /\ header[1][2][1] = "0"

\* line 481: float(header.split(", ")[3].split("=")[1])
GlobalScoreOf(header) == header[4][2]

\* headers with one more header put behind those of no higher score
RECURSIVE InsertByScore(_, _)
InsertByScore(headers, header) ==
  IF Len(headers) = 0 THEN << header >>
  ELSE IF GlobalScoreOf(header) < GlobalScoreOf(Head(headers))
         THEN << header >> \o headers
  ELSE << Head(headers) >> \o InsertByScore(Tail(headers), header)

\* line 483: scores.sort(key=lambda x: x[0]), a stable sort
RECURSIVE SortByScore(_)
SortByScore(headers) ==
  IF Len(headers) = 0 THEN << >>
  ELSE InsertByScore(SortByScore(SubSeq(headers, 1, Len(headers) - 1)),
                     headers[Len(headers)])

\* scores[:seq_per_sample]
Take(headers, count) ==
  SubSeq(headers, 1, IF count < Len(headers) THEN count ELSE Len(headers))

SeqsUnfilteredWhenUnsorted(fasta_seqs, sort_by_score, seq_per_sample) ==
  IF sort_by_score
    THEN Take(SortByScore(SelectSeq(fasta_seqs, StartsWithT0)), seq_per_sample)
  ELSE fasta_seqs

\* lines 471-502: seqs_dict, the headers read back from the file the selected
\* sequences were written to; lines 509-517 fold each of them
SeqsToRefold(fasta_seqs, sort_by_score, seq_per_sample) ==
  LET filtered_seqs == SelectSeq(fasta_seqs, StartsWithT0)
  IN  IF sort_by_score THEN Take(SortByScore(filtered_seqs), seq_per_sample)
      ELSE filtered_seqs

\* the .fa files of the design tool: the original sequence, then the designed
\* ones with their global scores
FastaFiles ==
  { << OriginalHeader >> \o [ k \in 1..Len(g) |-> DesignedHeader(k, g[k]) ] :
      g \in UNION { [ 1..m -> {1, 2} ] : m \in 0..MaxSamples } }

SelectInputs ==
  [ fasta_seqs : FastaFiles, sort_by_score : BOOLEAN, seq_per_sample : 1..MaxKeep ]

KernelSelectSeqs ==
  /\ kernel.op = "select"
  /\ ~kernel.done
  /\ kernel' = [ kernel EXCEPT
                   !.done = TRUE,
                   !.out = SeqsToRefold(kernel.arg.fasta_seqs,
                                        kernel.arg.sort_by_score,
                                        kernel.arg.seq_per_sample) ]
  /\ UNCHANGED mainVars

KernelInputs ==
  { [ op |-> "contig", arg |-> a, done |-> FALSE, out |-> << >> ] : a \in ContigInputs }
  \cup { [ op |-> "redesign", arg |-> a, done |-> FALSE, out |-> << >> ] : a \in RedesignInputs }
  \cup { [ op |-> "table", arg |-> a, done |-> FALSE, out |-> << >> ] : a \in FoldOrders }
  \cup { [ op |-> "record", arg |-> a, done |-> FALSE, out |-> << >> ] : a \in RecordInputs }
  \cup { [ op |-> "select", arg |-> a, done |-> FALSE, out |-> << >> ] : a \in SelectInputs }

KernelInit ==
  /\ conf = CHOOSE c \in Configs : TRUE
  /\ listing = << >>
  /\ Idle
  /\ kernel \in KernelInputs

KernelNext ==
  \/ KernelContig
  \/ KernelRedesign
  \/ KernelEsmTable
  \/ KernelAf2Table
  \/ KernelEsmRecord
  \/ KernelSelectSeqs

KernelSpec == KernelInit /\ [][KernelNext]_vars

\* ============================================================== claims
Visited(k) ==
  /\ phase # "idle"
  /\ k <= Len(listing)
  /\ k < i \/ (k = i /\ pc # "listdir")

\* the directory an entry of the listing resolves to
EntryKey(f) ==
  LET r == NameOutcome(f.parts, conf.max_backbones)
  IN  DirKey(r.backbone_name, r.sample_num)

EntryResolves(f) ==
  f.ext = "pdb" /\ NameOutcome(f.parts, conf.max_backbones).kind = "ok"

ToolFaults == {"DesignToolFault", "PredictionToolFault"}

\* C1: when every launch of the design tool raises, run_self_consistency
\* re-raises at the fifth attempt: not while fewer than five were made, and
\* no sixth is made.
C1_DesignToolRetryBound ==
  /\ (fault = "DesignToolFault" /\ attempts = num_tries) => attempts = 5
  /\ (phase = "sampling" /\ pc = "pmpnn" /\ attempts = num_tries) => attempts < 5

C1_Witness ==
  /\ phase = "aborted"
  /\ fault = "DesignToolFault"
  /\ attempts = 5
  /\ num_tries = 5

\* C2: when every launch of AlphaFold2 raises, run_af2 re-raises at the tenth
\* attempt.
C2_PredictionToolRetryBound ==
  /\ (fault = "PredictionToolFault" /\ attempts = num_tries_af2) => attempts = 10
  /\ (phase = "sampling" /\ pc = "af2" /\ attempts = num_tries_af2) => attempts < 10

\* C3: a retry loop is left for the next step only with exit status 0; a
\* non-zero status is never accepted.
C3_NonZeroExitIsFailure ==
  /\ (phase = "sampling" /\ pc = "read_seqs") => ret = 0
  /\ (phase = "sampling" /\ pc = "af2_metrics") => ret_af2 = 0

\* C4: a candidate whose working directory existed when run_sampling reached
\* it has no tool launched and no table written in that run, and over all
\* runs no table is written twice.
C4_AtMostOnce ==
  /\ \A k \in existedAtReach : k \notin invokedRun /\ k \notin writtenRun
  /\ \A a, b \in 1..Len(writeLog) : writeLog[a] = writeLog[b] => a = b

C4_Witness ==
  /\ runs = 2
  /\ phase = "sampled"
  /\ \E k \in existedAtReach : << k, "esm" >> \in tables

\* C5: with a cutoff M configured, a candidate resolved by the three-part
\* convention is skipped by the cutoff exactly when its sample index is
\* greater than M.
C5_CutoffExceeds ==
  \A k \in 1..Len(listing) :
    ( /\ Visited(k)
      /\ listing[k].ext = "pdb"
      /\ Len(listing[k].parts) = 3
      /\ conf.max_backbones # 0 )
    => ( k \in cutoffSkipped <=> IntOf[listing[k].parts[3]] > conf.max_backbones )

\* C6: with a cutoff M configured, no candidate whose sample index exceeds M
\* has the design tool launched, whatever convention resolved its name.
C6_CutoffEveryConvention ==
  \A key \in invokedRun :
    conf.max_backbones # 0 => IntOf[key[Len(key)]] <= conf.max_backbones

\* C7: a .pdb entry whose name fits neither convention does not end the run.
C7_UnresolvableNameSkipped ==
  \A k \in 1..Len(listing) :
    ( /\ Visited(k)
      /\ listing[k].ext = "pdb"
      /\ Len(listing[k].parts) \notin {2, 3} )
    => ~(phase = "aborted" /\ i = k)

CsvAvailable == conf.motif_csv_path # "None" /\ PathExists(conf.motif_csv_path)

C10_MotifMetadataFallback ==
  /\ fault # "AttributeError"
  /\ (phase = "sampling" /\ pc \notin {"listdir", "motif"}) =>
       motif_source = (IF CsvAvailable THEN "csv" ELSE "scaffold")

\* C11: a candidate whose contig construction or motif extraction fails is
\* skipped; the run does not end on it.
C11_ConfigErrorPerCandidate ==
  ~(phase = "aborted" /\ fault = "MotifError")

\* the benchmark case a file name stands for
CaseOf(parts) ==
  IF Len(parts) = 3 THEN parts[2]
  ELSE IF Len(parts) = 2 THEN parts[1]
  ELSE "none"

\* C12: a candidate of case 6VW1 has the design tool prepared with chains
\* "A B", every other candidate with chain "A", and the special case does
\* not end the run.
C12_DualChainCase ==
  /\ fault # "NameError"
  /\ chains # "none" =>
       chains = (IF CaseOf(listing[i].parts) = "6VW1" THEN "A B" ELSE "A")

\* C16: the design tool's .fa file is never handed to the parser when it is
\* not on disk (its existence is established before FastaFile.read).
C16_OutputVerifiedBeforeParse ==
  fasta_read # "missing"

\* C18: every attempt that leaves a retry loop running uses up one of the
\* bounded retries, so no sequence of outcomes keeps a loop running.
C18_RetryLoopsTerminate ==
  [][ ( /\ phase = "sampling"
        /\ pc \in {"pmpnn", "af2"}
        /\ pc' = pc
        /\ attempts' = attempts + 1 )
      => num_tries' + num_tries_af2' = num_tries + num_tries_af2 + 1 ]_vars

\* C19: when run_sampling has completed, every working directory holds a
\* metrics table.
C19_DirectoryHasMetrics ==
  phase = "sampled" =>
    \A d \in dirs : \E p \in {"esm", "af2", "joint"} : << d, p >> \in tables

\* C20: inside run_self_consistency the --ca_only flag is set exactly when
\* CA-only is configured or the candidate's own structure has at most three
\* atom types.
C20_CaOnlyPerCandidate ==
  (phase \in {"sampling", "aborted"} /\ chains # "none") =>
    (ca_flag <=> (conf.CA_only \/ listing[i].atoms <= 3))

Resolved(block) == [ chain |-> block[1], resi |-> Tail1(block) ]

LetterLeading(tokens) == SelectSeq(tokens, LAMBDA t : ~IsDigit(t[1]))

\* C13: the selections made from a contig are, in order, those of its
\* letter-leading tokens, each with the token's chain and its residues
\* start..end, or the single residue start.
C13_ContigParsing ==
  (kernel.op = "contig" /\ kernel.done) =>
    LET blocks == LetterLeading(kernel.arg)
    IN  /\ Len(kernel.out) = Len(blocks)
        /\ \A k \in 1..Len(blocks) : kernel.out[k] = Resolved(blocks[k])

\* C14: for a candidate with redesign positions, no fixed position handed to
\* the design tool is a redesign position, and the design contig covers the
\* whole motif index set.
C14_RedesignHandling ==
  (kernel.op = "redesign" /\ kernel.done /\ kernel.arg.redesign.given) =>
    /\ \A k \in 1..Len(kernel.out.fixed_positions) :
         kernel.out.fixed_positions[k] \notin kernel.arg.redesign.pos
    /\ Covered(kernel.out.sample_contig) = kernel.arg.motif

C14_Witness ==
  /\ kernel.op = "redesign"
  /\ kernel.done
  /\ kernel.arg.redesign.given
  /\ kernel.arg.redesign.pos \cap kernel.arg.motif # {}
  /\ Len(kernel.out.fixed_positions) > 0

\* C17: a per-candidate table is written with its rows in ascending
\* sample_idx order, one row per folded sequence.
C17_TableSorted ==
  (kernel.op = "table" /\ kernel.done) =>
    /\ Len(kernel.out.rows) = Len(kernel.arg)
    /\ \A a, b \in 1..Len(kernel.out.rows) :
         a < b => kernel.out.rows[a].sample_idx < kernel.out.rows[b].sample_idx
    /\ { kernel.out.rows[k].sample_idx : k \in 1..Len(kernel.out.rows) }
         = { kernel.arg[k] : k \in 1..Len(kernel.arg) }

C17_Witness ==
  /\ kernel.op = "table"
  /\ kernel.done
  /\ kernel.out.file = "af2"
  /\ Len(kernel.arg) > 1
  /\ kernel.arg[1] > kernel.arg[2]

\* C21: once run_sampling is through, every candidate processed in this run
\* has the per-candidate table named by the prefix the Evaluator selects.
C21_PrefixNamesWrittenTable ==
  phase \in {"evaluating", "finished"} =>
    \A key \in invokedRun : << key, prefix >> \in tables

\* C24: in every evaluation pass the novelty collaborator is invoked only if
\* the pass classified at least one row successful; with no successful row
\* the novelty value is 'null'.
C24_NoveltyOnlyWithSuccess ==
  (phase = "evaluating" /\ pc = "summary") =>
    /\ novelty_called => backbones > 0
    /\ backbones = 0 => novelty = "null"

\* C22: after n >= 1 sequences were folded with ESMFold, every column list of
\* the result record has exactly n entries, whether or not motif_mask and rms
\* were given.
C22_ColumnsHaveOneEntryPerSequence ==
  (kernel.op = "record" /\ kernel.done) =>
    \A c \in DOMAIN kernel.out : Len(kernel.out[c]) = kernel.arg.n

InSeq(x, seq) == \E k \in 1..Len(seq) : seq[k] = x

\* C23: the original sequence is never refolded; with sort_by_score at most
\* seq_per_sample designed sequences are refolded and no designed sequence
\* left out has a strictly lower global score than one taken; without
\* sort_by_score every designed sequence is refolded.
C23_SequenceSelection ==
  (kernel.op = "select" /\ kernel.done) =>
    LET fasta_seqs == kernel.arg.fasta_seqs
        designed == SelectSeq(fasta_seqs, StartsWithT0)
    IN  /\ \A k \in 1..Len(kernel.out) :
             /\ StartsWithT0(kernel.out[k])
             /\ InSeq(kernel.out[k], fasta_seqs)
        /\ kernel.arg.sort_by_score =>
             /\ Len(kernel.out) <= kernel.arg.seq_per_sample
             /\ \A a \in 1..Len(designed), b \in 1..Len(kernel.out) :
                  ~InSeq(designed[a], kernel.out) =>
                    GlobalScoreOf(designed[a]) >= GlobalScoreOf(kernel.out[b])
        /\ ~kernel.arg.sort_by_score =>
             \A a \in 1..Len(designed) : InSeq(designed[a], kernel.out)

C23_Witness ==
  /\ kernel.op = "select"
  /\ kernel.done
  /\ kernel.arg.sort_by_score
  /\ Len(kernel.arg.fasta_seqs) > kernel.arg.seq_per_sample + 1
  /\ Len(kernel.out) = kernel.arg.seq_per_sample
  /\ \E a, b \in 2..Len(kernel.arg.fasta_seqs) :
       /\ a < b
       /\ GlobalScoreOf(kernel.arg.fasta_seqs[a]) > GlobalScoreOf(kernel.arg.fasta_seqs[b])

====
